---- MODULE Spec2Model ----
(***************************************************************************)
(* Merkleized perfect binary trees (proofmarshal-core perfecttree) over    *)
(* clean/dirty pointers, with the pollable post-order save protocol.       *)
(*                                                                         *)
(* A raw node is the pair (memoized digest, pointer) of raw::Node; the     *)
(* height lives in the handle, never in the node, as in the source.        *)
(***************************************************************************)
EXTENDS Integers, Sequences, FiniteSets, Bags, TLC

\* ---------------------------------------------------------------- bounds
MaxAddr == 3        \* the allocator hands out MaxAddr addresses
MaxSize == 2        \* pointee sizes are drawn from 0..MaxSize
MaxOwned == 2       \* at most this many owned pointers are alive
MaxTakeAddr == 7    \* addresses handed out where values are taken back out
MaxTakeSize == 4    \* pointee sizes there are drawn from 0..MaxTakeSize
MaxValue == 1       \* leaf payloads are drawn from 0..MaxValue
MaxHeight == 2      \* try_join is offered only while the result stays this low
MaxPool == 3        \* live tree handles held by the caller at one time
MaxSaves == 2       \* saves started in one behaviour
MaxShapeSaves == 1  \* saves started while trees are split and rejoined
TopSpan == 2        \* the tall store holds roots of heights HeightMax - TopSpan .. HeightMax
MaxIdx == 4         \* in-range and just-out-of-range indexes offered to get
MaxFailAt == 3      \* a poll call may see its 1st .. MaxFailAt-th store operation fail

\* ------------------------------------------------------ program constants
ValueSize == 1      \* u8 payload blob
DigestSize == 32    \* Sha256Digest
PtrSize == 8        \* pointer blob
HeightSize == 1     \* height byte
HeightMax == 63     \* Height::MAX, the largest height a handle can carry
UsizeMax == 2147483647
    \* stands for usize::MAX: the largest index TLC's integers hold;
    \* get only compares an index and subtracts a smaller length from it

Values == 0 .. MaxValue
NodeSize == DigestSize + PtrSize
PairSize == 2 * NodeSize
TreeSize == NodeSize + HeightSize

None == <<>>
Some(x) == <<x>>

\* ------------------------------------------------------------- raw nodes
\* raw::Node { digest: Cell<Option<D>>, ptr: P }.  A dirty pointer owns its
\* target (a leaf value, or the two children of a pair); a clean pointer is
\* an offset into the store.
DirtyLeafNode(v) ==
    [digest |-> None, clean |-> FALSE, off |-> 0, val |-> v, kids |-> <<>>]

DirtyTipNode(digest, l, r) ==
    [digest |-> digest, clean |-> FALSE, off |-> 0, val |-> 0, kids |-> <<l, r>>]

CleanNode(digest, off) ==
    [digest |-> digest, clean |-> TRUE, off |-> off, val |-> 0, kids |-> <<>>]

Tree(raw, height) == [raw |-> raw, height |-> height]

\* --------------------------------------------------------------- heights
\* Height::try_increment: None once the height cannot grow.
try_increment(h) == IF h < HeightMax THEN Some(h + 1) ELSE None

\* NonZeroLength::from_height
from_height(h) == 2 ^ h

\* ---------------------------------------------------------------- digests
\* The hash is taken to be injective: a digest is the term it was computed
\* from.  A leaf commits to its value, a pair to its two children's
\* commitments (digest and height of each child, i.e. the pair's height).
LeafDigest(v) == <<"leaf", v>>

HashCommit(leftDigest, rightDigest, height) ==
    <<"pair", leftDigest, rightDigest, height>>

\* ------------------------------------------------------------------ store
\* The append-only store is the sequence of blobs appended so far; a blob
\* starts at the byte offset where the previous one ended.
ValueBlob(off, v) ==
    [off |-> off, size |-> ValueSize, kind |-> "value", val |-> v,
     nodes |-> <<>>, height |-> 0]

PairBlob(off, l, r) ==
    [off |-> off, size |-> PairSize, kind |-> "pair", val |-> 0,
     nodes |-> <<l, r>>, height |-> 0]

TreeBlob(off, n, h) ==
    [off |-> off, size |-> TreeSize, kind |-> "tree", val |-> 0,
     nodes |-> <<n>>, height |-> h]

NoBlob ==
    [off |-> 0, size |-> 0, kind |-> "none", val |-> 0, nodes |-> <<>>,
     height |-> 0]

StoreLen(st) == IF st = <<>> THEN 0 ELSE st[Len(st)].off + st[Len(st)].size

\* read(offset): the blob of the wanted kind that starts at the offset.
BlobAt(st, off, kind) ==
    IF \E k \in 1 .. Len(st) : st[k].off = off /\ st[k].kind = kind
    THEN st[CHOOSE k \in 1 .. Len(st) : st[k].off = off /\ st[k].kind = kind]
    ELSE NoBlob

\* Loading a node without the digest its blob carries.
LoadNode_NoDigest(nb) == CleanNode(None, nb.ptr)

\* raw::Node blob -> raw::Node: the pointer stays an offset (clean).
LoadNode(nb) == CleanNode(Some(nb.digest), nb.ptr)

\* ------------------------------------------------------------- tree views
\* TipDyn::get_pair: the two children behind a tip's pointer, borrowed from
\* the heap when dirty, loaded from the store when clean.  <<>> when the
\* offset holds no pair blob.
get_pair(st, raw) ==
    IF ~raw.clean THEN raw.kids
    ELSE LET b == BlobAt(st, raw.off, "pair")
         IN  IF b.kind = "pair"
             THEN <<LoadNode(b.nodes[1]), LoadNode(b.nodes[2])>>
             ELSE <<>>

\* Leaf::get: the value behind a leaf's pointer; -1 when the offset holds
\* no value blob.
LeafValue(st, raw) ==
    IF ~raw.clean THEN raw.val
    ELSE LET b == BlobAt(st, raw.off, "value")
         IN  IF b.kind = "value" THEN b.val ELSE -1

RECURSIVE get_leaf(_, _, _, _)

\* get_leaf with the right descent keeping the index as it is.
get_leaf_NoRebase(st, raw, height, idx) ==
    IF height = 0
    THEN IF idx = 0 THEN Some(LeafValue(st, raw)) ELSE None
    ELSE LET pair == get_pair(st, raw)
             len == from_height(height)
         IN  IF pair = <<>> THEN Some(-1)
             ELSE IF idx < len \div 2
                  THEN get_leaf(st, pair[1], height - 1, idx)
                  ELSE IF idx < len
                       THEN get_leaf(st, pair[2], height - 1, idx)
                       ELSE None

\* PerfectTreeDyn::get_leaf / TipDyn::get_leaf / PairDyn::get_leaf.
\* Some(value) or None.
get_leaf(st, raw, height, idx) ==
    IF height = 0
    THEN IF idx = 0 THEN Some(LeafValue(st, raw)) ELSE None
    ELSE LET pair == get_pair(st, raw)
             len == from_height(height)
         IN  IF pair = <<>> THEN Some(-1)
             ELSE IF idx < len \div 2
                  THEN get_leaf(st, pair[1], height - 1, idx)
                  ELSE IF idx < len
                       THEN get_leaf(st, pair[2], height - 1, idx - (len \div 2))
                       ELSE None

\* PerfectTreeDyn::get
get(st, tree, idx) == get_leaf(st, tree.raw, tree.height, idx)

\* The leaf values of a tree, left to right, read through clean pointers.
RECURSIVE Leaves(_, _, _)
Leaves(st, raw, height) ==
    IF height = 0 THEN <<LeafValue(st, raw)>>
    ELSE LET pair == get_pair(st, raw)
         IN  IF pair = <<>> THEN <<>>
             ELSE Leaves(st, pair[1], height - 1) \o Leaves(st, pair[2], height - 1)

\* ------------------------------------------------------------ construction
\* PerfectTree::new_leaf
new_leaf(v) == Tree(DirtyLeafNode(v), 0)

\* try_join without the height comparison.
try_join_NoCheck(left, right) ==
    IF try_increment(left.height) # None
    THEN [outcome |-> "ok",
          tree |-> Some(Tree(DirtyTipNode(None, left.raw, right.raw),
                             try_increment(left.height)[1])),
          back |-> <<>>]
    ELSE [outcome |-> "err", tree |-> None, back |-> <<left, right>>]

\* try_join that unwraps the incremented height.
try_join_Unwrap(left, right) ==
    IF left.height # right.height \/ try_increment(left.height) = None
    THEN [outcome |-> "panic", tree |-> None, back |-> <<>>]
    ELSE [outcome |-> "ok",
          tree |-> Some(Tree(DirtyTipNode(None, left.raw, right.raw),
                             try_increment(left.height)[1])),
          back |-> <<>>]

\* Pair::try_join, then Tip::new (digest None, pair moved to the heap) and
\* PerfectTree::from(tip).  Unequal heights panic; a height that cannot be
\* incremented hands both operands back.  tree is the Ok payload, back the
\* Err payload.
try_join(left, right) ==
    IF left.height # right.height
    THEN [outcome |-> "panic", tree |-> None, back |-> <<>>]
    ELSE IF try_increment(left.height) # None
         THEN [outcome |-> "ok",
               tree |-> Some(Tree(DirtyTipNode(None, left.raw, right.raw),
                                  try_increment(left.height)[1])),
               back |-> <<>>]
         ELSE [outcome |-> "err", tree |-> None, back |-> <<left, right>>]

\* PerfectTree::into_kind: a tip when the height is non-zero, a leaf
\* otherwise; the node goes along as it is.
into_kind(tree) ==
    IF tree.height > 0
    THEN [kind |-> "Tip", raw |-> tree.raw, height |-> tree.height]
    ELSE [kind |-> "Leaf", raw |-> tree.raw, height |-> 0]

\* into_split that hands the children out with the pair's own height.
into_split_SameHeight(pair, height) ==
    <<Tree(pair[1], height), Tree(pair[2], height)>>

\* Pair::into_split: the two children, each with the pair's height
\* decremented.
into_split(pair, height) ==
    <<Tree(pair[1], height - 1), Tree(pair[2], height - 1)>>

\* ------------------------------------------------------------- commitments
\* Every commitment operator returns the digest, the node with the digests
\* it memoized on the way, and whether it panicked.
RECURSIVE to_commitment(_, _)
RECURSIVE calc_pair_commit(_, _)

\* Commit for PairDyn: the commitments of the two children the code visits
\* (it commits self.left() twice), joined.
PairToCommitment(kids, height) ==
    LET left == to_commitment(kids[1], height - 1)
        right == to_commitment(left.raw, height - 1)
    IN  [left |-> left.digest, right |-> right.digest,
         kids |-> <<right.raw, kids[2]>>,
         panic |-> left.panic \/ right.panic]

\* TipDyn::calc_pair_commit: the pair must be dirty; hash its commitment
\* and memoize the digest.
calc_pair_commit(raw, height) ==
    IF raw.clean
    THEN [digest |-> <<"none">>, raw |-> raw, panic |-> TRUE]
    ELSE LET c == PairToCommitment(raw.kids, height)
             d == HashCommit(c.left, c.right, height)
         IN  IF c.panic
             THEN [digest |-> <<"none">>,
                   raw |-> [raw EXCEPT !.kids = c.kids], panic |-> TRUE]
             ELSE [digest |-> d,
                   raw |-> [raw EXCEPT !.digest = Some(d), !.kids = c.kids],
                   panic |-> FALSE]

\* pair_commit that hashes the pair on every call.
pair_commit_NoCache(raw, height) == calc_pair_commit(raw, height)

\* TipDyn::pair_commit / try_pair_commit: the memoized digest if present.
pair_commit(raw, height) ==
    IF raw.digest # None
    THEN [digest |-> raw.digest[1], raw |-> raw, panic |-> FALSE]
    ELSE calc_pair_commit(raw, height)

\* Commit for PerfectTreeDyn: a leaf commits to its value (or carries the
\* digest it was loaded with), a tip to its pair.
to_commitment(raw, height) ==
    IF height = 0
    THEN [digest |-> IF raw.digest # None THEN raw.digest[1]
                     ELSE LeafDigest(raw.val),
          raw |-> raw, panic |-> FALSE]
    ELSE pair_commit(raw, height)

\* -------------------------------------------------------------------- save
\* A poll node is a LeafSavePoll or a TipDynSavePoll: the digest taken at
\* init, and State = Clean(offset) | Dirty(target) | Done(offset).  A dirty
\* leaf's target is its value, a dirty tip's target the PairDynSavePoll
\* (left, right).
Poll(leaf, height, digest, state, ptr, val, kids) ==
    [leaf |-> leaf, height |-> height, digest |-> digest, state |-> state,
     ptr |-> ptr, val |-> val, kids |-> kids]

RECURSIVE init_save_ref(_, _)

\* init_save_ref that takes a tip whose digest is already memoized for
\* persisted.
init_save_ref_MemoIsClean(raw, height) ==
    IF height = 0
    THEN [poll |-> Poll(TRUE, 0, to_commitment(raw, 0).digest,
                        IF raw.clean THEN "Clean" ELSE "Dirty",
                        raw.off, raw.val, <<>>),
          raw |-> raw, panic |-> FALSE]
    ELSE LET c == pair_commit(raw, height)
         IN  IF c.raw.clean \/ raw.digest # None
             THEN [poll |-> Poll(FALSE, height, c.digest, "Clean",
                                 c.raw.off, 0, <<>>),
                   raw |-> c.raw, panic |-> c.panic]
             ELSE LET l == init_save_ref(c.raw.kids[1], height - 1)
                      r == init_save_ref(c.raw.kids[2], height - 1)
                  IN  [poll |-> Poll(FALSE, height, c.digest, "Dirty", 0, 0,
                                     <<l.poll, r.poll>>),
                       raw |-> [c.raw EXCEPT !.kids = <<l.raw, r.raw>>],
                       panic |-> l.panic \/ r.panic]

\* init_save_ref that moves the memoized digest of a clean tip into the
\* poll, leaving the tip without one.
init_save_ref_TakeDigest(raw, height) ==
    IF height = 0
    THEN [poll |-> Poll(TRUE, 0, to_commitment(raw, 0).digest,
                        IF raw.clean THEN "Clean" ELSE "Dirty",
                        raw.off, raw.val, <<>>),
          raw |-> raw, panic |-> FALSE]
    ELSE LET c == pair_commit(raw, height)
         IN  IF c.panic
             THEN [poll |-> Poll(FALSE, height, c.digest, "Clean", 0, 0, <<>>),
                   raw |-> c.raw, panic |-> TRUE]
             ELSE IF c.raw.clean
             THEN [poll |-> Poll(FALSE, height, c.digest, "Clean",
                                 c.raw.off, 0, <<>>),
                   raw |-> [c.raw EXCEPT !.digest = None], panic |-> FALSE]
             ELSE LET l == init_save_ref(c.raw.kids[1], height - 1)
                      r == init_save_ref(c.raw.kids[2], height - 1)
                  IN  [poll |-> Poll(FALSE, height, c.digest, "Dirty", 0, 0,
                                     <<l.poll, r.poll>>),
                       raw |-> [c.raw EXCEPT !.kids = <<l.raw, r.raw>>],
                       panic |-> l.panic \/ r.panic]

\* SaveRef::init_save_ref for PerfectTreeDyn, TipDyn and PairDyn, and
\* Leaf::init_save.  Returns the poll, the node with the digests memoized
\* by pair_commit, and whether pair_commit panicked.
init_save_ref(raw, height) ==
    IF height = 0
    THEN [poll |-> Poll(TRUE, 0, to_commitment(raw, 0).digest,
                        IF raw.clean THEN "Clean" ELSE "Dirty",
                        raw.off, raw.val, <<>>),
          raw |-> raw, panic |-> FALSE]
    ELSE LET c == pair_commit(raw, height)
         IN  IF c.panic
             THEN [poll |-> Poll(FALSE, height, c.digest, "Clean", 0, 0, <<>>),
                   raw |-> c.raw, panic |-> TRUE]
             ELSE IF c.raw.clean
             THEN [poll |-> Poll(FALSE, height, c.digest, "Clean",
                                 c.raw.off, 0, <<>>),
                   raw |-> c.raw, panic |-> FALSE]
             ELSE LET l == init_save_ref(c.raw.kids[1], height - 1)
                      r == init_save_ref(c.raw.kids[2], height - 1)
                  IN  [poll |-> Poll(FALSE, height, c.digest, "Dirty", 0, 0,
                                     <<l.poll, r.poll>>),
                       raw |-> [c.raw EXCEPT !.kids = <<l.raw, r.raw>>],
                       panic |-> l.panic \/ r.panic]

\* The saver: the store, the number of store operations this poll call has
\* attempted, and the operation that fails (0: none does).
Saver(st, failAt) == [store |-> st, n |-> 0, failAt |-> failAt]

\* Saver::save_ptr on a clean pointer: the offset is already the answer.
save_ptr(sv, p) ==
    [ok |-> sv.n + 1 # sv.failAt, q |-> p, sv |-> [sv EXCEPT !.n = sv.n + 1]]

\* Saver::save_blob_with: append the blob, answer the offset it starts at.
save_blob(sv, blob) ==
    IF sv.n + 1 = sv.failAt
    THEN [ok |-> FALSE, q |-> 0, sv |-> [sv EXCEPT !.n = sv.n + 1]]
    ELSE [ok |-> TRUE, q |-> StoreLen(sv.store),
          sv |-> [sv EXCEPT !.n = sv.n + 1,
                            !.store = Append(sv.store, blob)]]

\* encode_raw_node_blob: digest and pointer of a Done poll; panics on
\* Clean and Dirty.
encode_raw_node_blob(poll) ==
    [digest |-> poll.digest, ptr |-> poll.ptr, panic |-> poll.state # "Done"]

NodeBlob(e) == [digest |-> e.digest, ptr |-> e.ptr]

\* encode_raw_pair_blob that encodes the left node twice.
encode_raw_pair_blob_LeftTwice(off, kids) ==
    PairBlob(off, NodeBlob(encode_raw_node_blob(kids[1])),
                  NodeBlob(encode_raw_node_blob(kids[1])))

\* encode_raw_pair_blob with the two nodes in the wrong order.
encode_raw_pair_blob_Swapped(off, kids) ==
    PairBlob(off, NodeBlob(encode_raw_node_blob(kids[2])),
                  NodeBlob(encode_raw_node_blob(kids[1])))

\* encode_raw_pair_blob whose right pointer is the offset the pair's own
\* blob is appended at.
encode_raw_pair_blob_SelfRight(off, kids) ==
    PairBlob(off, NodeBlob(encode_raw_node_blob(kids[1])),
                  [digest |-> encode_raw_node_blob(kids[2]).digest,
                   ptr |-> off])

\* PairDynSavePoll::encode_raw_pair_blob
encode_raw_pair_blob(off, kids) ==
    PairBlob(off, NodeBlob(encode_raw_node_blob(kids[1])),
                  NodeBlob(encode_raw_node_blob(kids[2])))

RECURSIVE save_ref_poll(_, _)

\* LeafSavePoll::save_poll: a dirty leaf appends its value.
LeafSavePoll(poll, sv) ==
    CASE poll.state = "Done" -> [ok |-> TRUE, poll |-> poll, sv |-> sv]
      [] poll.state = "Clean" ->
            LET r == save_ptr(sv, poll.ptr)
            IN  IF r.ok
                THEN [ok |-> TRUE, sv |-> r.sv,
                      poll |-> [poll EXCEPT !.state = "Done", !.ptr = r.q]]
                ELSE [ok |-> FALSE, poll |-> poll, sv |-> r.sv]
      [] poll.state = "Dirty" ->
            LET r == save_blob(sv, ValueBlob(StoreLen(sv.store), poll.val))
            IN  IF r.ok
                THEN [ok |-> TRUE, sv |-> r.sv,
                      poll |-> [poll EXCEPT !.state = "Done", !.ptr = r.q]]
                ELSE [ok |-> FALSE, poll |-> poll, sv |-> r.sv]

\* save_ref_poll of a pair that polls right even though left failed.
PairSaveRefPoll_IgnoreLeftErr(kids, sv) ==
    LET l == save_ref_poll(kids[1], sv)
        r == save_ref_poll(kids[2], l.sv)
    IN  [ok |-> l.ok /\ r.ok, kids |-> <<l.poll, r.poll>>, sv |-> r.sv]

\* save_ref_poll of a pair that drops the left child's error and answers
\* with the right child's result.
PairSaveRefPoll_DropLeftErr(kids, sv) ==
    LET l == save_ref_poll(kids[1], sv)
        r == save_ref_poll(kids[2], l.sv)
    IN  [ok |-> r.ok, kids |-> <<l.poll, r.poll>>, sv |-> r.sv]

\* PairDynSavePoll::save_ref_poll: left, then (only if left is Ok) right.
PairSaveRefPoll(kids, sv) ==
    LET l == save_ref_poll(kids[1], sv)
    IN  IF ~l.ok
        THEN [ok |-> FALSE, kids |-> <<l.poll, kids[2]>>, sv |-> l.sv]
        ELSE LET r == save_ref_poll(kids[2], l.sv)
             IN  [ok |-> r.ok, kids |-> <<l.poll, r.poll>>, sv |-> r.sv]

RECURSIVE TipSaveRefPoll(_, _)

\* save_ref_poll of a tip that appends the pair's blob before it polls the
\* pair's children.
TipSaveRefPoll_PreOrder(poll, sv) ==
    CASE poll.state = "Done" -> [ok |-> TRUE, poll |-> poll, sv |-> sv]
      [] poll.state = "Clean" ->
            LET r == save_ptr(sv, poll.ptr)
            IN  IF r.ok
                THEN TipSaveRefPoll(
                        [poll EXCEPT !.state = "Done", !.ptr = r.q], r.sv)
                ELSE [ok |-> FALSE, poll |-> poll, sv |-> r.sv]
      [] poll.state = "Dirty" ->
            LET b == save_blob(sv,
                        encode_raw_pair_blob(StoreLen(sv.store), poll.kids))
                t == PairSaveRefPoll(poll.kids, b.sv)
            IN  IF ~b.ok
                THEN [ok |-> FALSE, poll |-> poll, sv |-> b.sv]
                ELSE IF ~t.ok
                THEN [ok |-> FALSE, poll |-> [poll EXCEPT !.kids = t.kids],
                      sv |-> t.sv]
                ELSE TipSaveRefPoll(
                        [poll EXCEPT !.state = "Done", !.ptr = b.q,
                                     !.kids = <<>>], t.sv)

\* save_ref_poll of a tip that re-encodes the pair behind a clean pointer
\* and appends it again.
TipSaveRefPoll_ReencodeClean(poll, sv) ==
    CASE poll.state = "Done" -> [ok |-> TRUE, poll |-> poll, sv |-> sv]
      [] poll.state = "Clean" ->
            LET r == save_blob(sv,
                        [BlobAt(sv.store, poll.ptr, "pair")
                            EXCEPT !.off = StoreLen(sv.store)])
            IN  IF r.ok
                THEN TipSaveRefPoll(
                        [poll EXCEPT !.state = "Done", !.ptr = r.q], r.sv)
                ELSE [ok |-> FALSE, poll |-> poll, sv |-> r.sv]
      [] poll.state = "Dirty" ->
            LET t == PairSaveRefPoll(poll.kids, sv)
                b == save_blob(t.sv,
                        encode_raw_pair_blob(StoreLen(t.sv.store), t.kids))
            IN  IF ~t.ok
                THEN [ok |-> FALSE, poll |-> [poll EXCEPT !.kids = t.kids],
                      sv |-> t.sv]
                ELSE IF ~b.ok
                THEN [ok |-> FALSE, poll |-> [poll EXCEPT !.kids = t.kids],
                      sv |-> b.sv]
                ELSE TipSaveRefPoll(
                        [poll EXCEPT !.state = "Done", !.ptr = b.q,
                                     !.kids = <<>>], b.sv)

\* save_ref_poll of a tip that, on a store error, forgets what the pair's
\* children had reached.
TipSaveRefPoll_ForgetProgress(poll, sv) ==
    CASE poll.state = "Done" -> [ok |-> TRUE, poll |-> poll, sv |-> sv]
      [] poll.state = "Clean" ->
            LET r == save_ptr(sv, poll.ptr)
            IN  IF r.ok
                THEN TipSaveRefPoll(
                        [poll EXCEPT !.state = "Done", !.ptr = r.q], r.sv)
                ELSE [ok |-> FALSE, poll |-> poll, sv |-> r.sv]
      [] poll.state = "Dirty" ->
            LET t == PairSaveRefPoll(poll.kids, sv)
                b == save_blob(t.sv,
                        encode_raw_pair_blob(StoreLen(t.sv.store), t.kids))
            IN  IF ~t.ok
                THEN [ok |-> FALSE, poll |-> poll, sv |-> t.sv]
                ELSE IF ~b.ok
                THEN [ok |-> FALSE, poll |-> poll, sv |-> b.sv]
                ELSE TipSaveRefPoll(
                        [poll EXCEPT !.state = "Done", !.ptr = b.q,
                                     !.kids = <<>>], b.sv)

\* save_ref_poll of a tip that asks the store for the pointer again when
\* it is already Done.
TipSaveRefPoll_DoneAsksAgain(poll, sv) ==
    CASE poll.state = "Done" ->
            LET r == save_ptr(sv, poll.ptr)
            IN  [ok |-> r.ok, poll |-> poll, sv |-> r.sv]
      [] poll.state = "Clean" ->
            LET r == save_ptr(sv, poll.ptr)
            IN  IF r.ok
                THEN [ok |-> TRUE, sv |-> r.sv,
                      poll |-> [poll EXCEPT !.state = "Done", !.ptr = r.q]]
                ELSE [ok |-> FALSE, poll |-> poll, sv |-> r.sv]
      [] poll.state = "Dirty" ->
            LET t == PairSaveRefPoll(poll.kids, sv)
                b == save_blob(t.sv,
                        encode_raw_pair_blob(StoreLen(t.sv.store), t.kids))
            IN  IF ~t.ok
                THEN [ok |-> FALSE, poll |-> [poll EXCEPT !.kids = t.kids],
                      sv |-> t.sv]
                ELSE IF ~b.ok
                THEN [ok |-> FALSE, poll |-> [poll EXCEPT !.kids = t.kids],
                      sv |-> b.sv]
                ELSE [ok |-> TRUE, sv |-> b.sv,
                      poll |-> [poll EXCEPT !.state = "Done", !.ptr = b.q,
                                            !.kids = <<>>]]

\* save_ref_poll of a tip that is Done as soon as its children are, whether
\* or not the store took the pair's blob.
TipSaveRefPoll_DoneBeforeAppend(poll, sv) ==
    CASE poll.state = "Done" -> [ok |-> TRUE, poll |-> poll, sv |-> sv]
      [] poll.state = "Clean" ->
            LET r == save_ptr(sv, poll.ptr)
            IN  IF r.ok
                THEN [ok |-> TRUE, sv |-> r.sv,
                      poll |-> [poll EXCEPT !.state = "Done", !.ptr = r.q]]
                ELSE [ok |-> FALSE, poll |-> poll, sv |-> r.sv]
      [] poll.state = "Dirty" ->
            LET t == PairSaveRefPoll(poll.kids, sv)
                b == save_blob(t.sv,
                        encode_raw_pair_blob(StoreLen(t.sv.store), t.kids))
            IN  IF ~t.ok
                THEN [ok |-> FALSE, poll |-> [poll EXCEPT !.kids = t.kids],
                      sv |-> t.sv]
                ELSE [ok |-> b.ok, sv |-> b.sv,
                      poll |-> [poll EXCEPT !.state = "Done", !.ptr = b.q,
                                            !.kids = <<>>]]

\* TipDynSavePoll::save_ref_poll: loop until Done or a store error.
TipSaveRefPoll(poll, sv) ==
    CASE poll.state = "Done" -> [ok |-> TRUE, poll |-> poll, sv |-> sv]
      [] poll.state = "Clean" ->
            LET r == save_ptr(sv, poll.ptr)
            IN  IF r.ok
                THEN TipSaveRefPoll(
                        [poll EXCEPT !.state = "Done", !.ptr = r.q], r.sv)
                ELSE [ok |-> FALSE, poll |-> poll, sv |-> r.sv]
      [] poll.state = "Dirty" ->
            LET t == PairSaveRefPoll(poll.kids, sv)
                b == save_blob(t.sv,
                        encode_raw_pair_blob(StoreLen(t.sv.store), t.kids))
            IN  IF ~t.ok
                THEN [ok |-> FALSE, poll |-> [poll EXCEPT !.kids = t.kids],
                      sv |-> t.sv]
                ELSE IF ~b.ok
                THEN [ok |-> FALSE, poll |-> [poll EXCEPT !.kids = t.kids],
                      sv |-> b.sv]
                ELSE TipSaveRefPoll(
                        [poll EXCEPT !.state = "Done", !.ptr = b.q,
                                     !.kids = <<>>], b.sv)

\* SaveRefPoll for PerfectTreeDynSavePoll
save_ref_poll(poll, sv) ==
    IF poll.leaf THEN LeafSavePoll(poll, sv) ELSE TipSaveRefPoll(poll, sv)

\* SavePoll for PerfectTreeSavePoll
save_poll(poll, sv) == save_ref_poll(poll, sv)

\* encode_blob whose pointer field is the root blob's own offset.
encode_blob_SelfPtr(off, poll) ==
    TreeBlob(off, [digest |-> poll.digest, ptr |-> off], poll.height)

\* PerfectTreeSavePoll::encode_blob: the root blob, node then height.
encode_blob(off, poll) ==
    TreeBlob(off, NodeBlob(encode_raw_node_blob(poll)), poll.height)

\* load that brings the node into memory instead of keeping the offset.
load_Dirty(blob) ==
    Tree([LoadNode(blob.nodes[1]) EXCEPT !.clean = FALSE, !.off = 0],
         blob.height)

\* load that leaves the digest the blob carries behind.
load_NoDigest(blob) == Tree(CleanNode(None, blob.nodes[1].ptr), blob.height)

\* Load for PerfectTree: the handle takes the blob's height, the node stays
\* clean.
load(blob) == Tree(LoadNode(blob.nodes[1]), blob.height)

\* ---------------------------------------------------------------- pointers
\* A u64 / usize is four 16-bit limbs, least significant first; every
\* operator keeps the 64-bit width (a shift drops the bit it pushes out).
Limb == 2 ^ 16

U64(n) == <<n % Limb, (n \div Limb) % Limb, 0, 0>>

U64Leq(a, b) ==
    LET d == {i \in 1 .. 4 : a[i] # b[i]}
    IN  d = {} \/ LET m == CHOOSE i \in d : \A j \in d : j <= i
                  IN  a[m] < b[m]

\* The carry into limb i of a left shift, and into limb i of a right shift.
CarryUp(x, i) == IF i > 1 /\ x[i - 1] >= Limb \div 2 THEN 1 ELSE 0

CarryDown(x, i) == IF i < 4 /\ x[i + 1] % 2 = 1 THEN Limb \div 2 ELSE 0

Shl1(x) ==
    << ((2 * x[1]) % Limb) + CarryUp(x, 1), ((2 * x[2]) % Limb) + CarryUp(x, 2),
       ((2 * x[3]) % Limb) + CarryUp(x, 3), ((2 * x[4]) % Limb) + CarryUp(x, 4) >>

Shr1(x) ==
    << (x[1] \div 2) + CarryDown(x, 1), (x[2] \div 2) + CarryDown(x, 2),
       (x[3] \div 2) + CarryDown(x, 3), (x[4] \div 2) + CarryDown(x, 4) >>

Or1(x) == <<IF x[1] % 2 = 0 THEN x[1] + 1 ELSE x[1], x[2], x[3], x[4]>>

LowBit(x) == x[1] % 2

\* Offset::MAX = (1 << 62) - 1
OffsetMAX == <<Limb - 1, Limb - 1, Limb - 1, (Limb \div 4) - 1>>

\* Offset::new whose range check is strict.
Offset_new_Strict(offset) ==
    IF U64Leq(offset, OffsetMAX) /\ offset # OffsetMAX
    THEN [result |-> Some(Or1(Shl1(offset))), panic |-> FALSE]
    ELSE [result |-> None, panic |-> FALSE]

\* Offset::new: Some(raw) with raw = (offset << 1) | 1, None beyond MAX;
\* NonZeroU64::new(..).unwrap() panics on zero.
Offset_new(offset) ==
    IF U64Leq(offset, OffsetMAX)
    THEN LET raw == Or1(Shl1(offset))
         IN  IF raw = U64(0)
             THEN [result |-> None, panic |-> TRUE]
             ELSE [result |-> Some(raw), panic |-> FALSE]
    ELSE [result |-> None, panic |-> FALSE]

\* Offset::get
Offset_get(raw) == Shr1(raw)

\* fix_layout: the size as it is, the alignment cmp::min(align, 2).
fix_layout(layout) ==
    [size |-> layout.size,
     align |-> IF layout.align < 2 THEN layout.align ELSE 2]

\* OffsetMut::from_ptr: the address as the raw value; asserts the low bit
\* is clear.
from_ptr(addr) ==
    [raw |-> U64(addr), panic |-> LowBit(U64(addr)) # 0]

\* kind that tests the second bit.
kind_SecondBit(raw) ==
    IF (raw[1] \div 2) % 2 = 1
    THEN [kind |-> "Offset", raw |-> raw]
    ELSE [kind |-> "Ptr", raw |-> raw]

\* OffsetMut::kind: Offset(self.0) when the low bit is set, Ptr(raw) when
\* it is clear.
kind(raw) ==
    IF LowBit(raw) = 1
    THEN [kind |-> "Offset", raw |-> raw]
    ELSE [kind |-> "Ptr", raw |-> raw]

\* The layout try_take would free with if it took the value's layout as it
\* is.
try_take_layout_Unfixed(layout) == layout

\* The layout OffsetMut::try_take hands to dealloc: fix_layout of the
\* value's layout.
try_take_layout(layout) == fix_layout(layout)

\* Ptr::dealloc_own: Offset takes the pointer apart and does nothing more;
\* OffsetMut is todo!().
dealloc_own(type) == IF type = "Offset" THEN "ok" ELSE "panic"

\* An owned pointer: the pointer type, the raw value, the pointee's layout
\* (its metadata), and where the raw value came from (from: bookkeeping).
Own(type, raw, layout, from) ==
    [type |-> type, raw |-> raw, layout |-> layout, from |-> from]

\* A heap block: where it is, the layout it was allocated with, and the
\* owned pointers the value in it holds.
Block(addr, layout, kids) == [addr |-> addr, layout |-> layout, kids |-> kids]

\* The allocator never hands out the lowest addresses, which zero-sized
\* values take as their dangling address.
AddrBase == 2 ^ 2

Addrs == AddrBase + 1 .. AddrBase + MaxAddr

Aligns == {1, 2, 4}

\* Layout::for_value of the pointees: a size is a multiple of its alignment.
Layouts ==
    {l \in [size : 0 .. MaxSize, align : Aligns] : l.size % l.align = 0}

\* The addresses std::alloc::alloc may return for a layout: aligned, and
\* the block overlaps no live block.
FreeIn(addrs, hp, layout) ==
    {a \in addrs :
        /\ a % layout.align = 0
        /\ \A c \in a .. a + layout.size - 1 : c \in addrs
        /\ \A b \in hp :
              a + layout.size <= b.addr \/ b.addr + b.layout.size <= a}

FreeAt(hp, layout) == FreeIn(Addrs, hp, layout)

\* The addresses and layouts where values are allocated to be taken out
\* again: room for a value whose alignment fix_layout changes.
TakeAddrs == AddrBase + 1 .. AddrBase + MaxTakeAddr

TakeLayouts ==
    {l \in [size : {0, MaxTakeSize \div 2, MaxTakeSize}, align : Aligns] :
        l.size = 0 \/ l.size = l.align}

\* The offsets handed to Offset::new: around 0, around MAX, and the largest
\* usize.
OffsetInputs ==
    {U64(0), U64(1),
     OffsetMAX,
     <<0, 0, 0, Limb \div 4>>,
     <<0, 0, 0, Limb \div 2>>,
     <<Limb - 1, Limb - 1, Limb - 1, Limb - 1>>}

\* The blocks a pointer owns, directly and through the pointers they hold.
RECURSIVE Reach(_, _)
Reach(hp, p) ==
    IF p.type = "Offset" \/ LowBit(p.raw) = 1 \/ p.layout.size = 0 THEN {}
    ELSE LET bs == {b \in hp : U64(b.addr) = p.raw}
         IN  bs \cup UNION {Reach(hp, k) : k \in UNION {b.kids : b \in bs}}

\* ---------------------------------------------------------------- decoding
\* The bytes of a PerfectTree, Tip or Pair blob are the raw field (one
\* node, or the two nodes of a pair; a node is a digest and a pointer) and
\* then the height byte.  A pointer's bytes are a legal offset when the low
\* bit is set and the offset is in range; a height is at most HeightMax, a
\* non-zero height at least 1 as well.
PtrBlobOk(raw) == LowBit(raw) = 1 /\ U64Leq(Offset_get(raw), OffsetMAX)

\* Decoding the raw field: the first pointer that is no legal offset fails
\* it.
DecodeRaw(nodes) ==
    IF \A k \in 1 .. Len(nodes) : PtrBlobOk(nodes[k].ptr)
    THEN [ok |-> TRUE, value |-> nodes]
    ELSE [ok |-> FALSE, value |-> <<>>]

\* Decoding the height field: Height for a PerfectTree, NonZeroHeight for a
\* Tip and a Pair.
DecodeHeight(type, byte) ==
    IF byte <= HeightMax /\ (type = "PerfectTree" \/ byte >= 1)
    THEN [ok |-> TRUE, value |-> byte]
    ELSE [ok |-> FALSE, value |-> 0]

\* decode_bytes that decodes the height field first.
decode_bytes_HeightFirst(type, nodes, byte) ==
    LET height == DecodeHeight(type, byte)
        raw == DecodeRaw(nodes)
    IN  IF ~height.ok
        THEN [ok |-> FALSE, err |-> "Height", read |-> <<"height">>,
              value |-> <<>>, panic |-> FALSE]
        ELSE IF ~raw.ok
        THEN [ok |-> FALSE, err |-> "Raw", read |-> <<"height", "raw">>,
              value |-> <<>>, panic |-> FALSE]
        ELSE [ok |-> TRUE, err |-> "", read |-> <<"height", "raw">>,
              value |-> <<[nodes |-> raw.value, height |-> height.value]>>,
              panic |-> FALSE]

\* Blob::decode_bytes for PerfectTree, Tip and Pair: the raw field, then
\* the height field, each error mapped to its own kind; assert_done finds
\* the two fields to be the whole blob.  read lists the fields decoded.
decode_bytes(type, nodes, byte) ==
    LET raw == DecodeRaw(nodes)
        height == DecodeHeight(type, byte)
    IN  IF ~raw.ok
        THEN [ok |-> FALSE, err |-> "Raw", read |-> <<"raw">>,
              value |-> <<>>, panic |-> FALSE]
        ELSE IF ~height.ok
        THEN [ok |-> FALSE, err |-> "Height", read |-> <<"raw", "height">>,
              value |-> <<>>, panic |-> FALSE]
        ELSE [ok |-> TRUE, err |-> "", read |-> <<"raw", "height">>,
              value |-> <<[nodes |-> raw.value, height |-> height.value]>>,
              panic |-> FALSE]

\* The blob types, the pointer bytes and the height bytes offered to
\* decode_bytes: legal and illegal ones of each.
BlobTypes == {"PerfectTree", "Tip", "Pair"}

PtrBytes ==
    {U64(0), U64(1), U64(2), U64(3),
     <<Limb - 1, Limb - 1, Limb - 1, (Limb \div 2) - 1>>,
     <<Limb - 1, Limb - 1, Limb - 1, Limb - 1>>}

HeightBytes == {0, 1, HeightMax, HeightMax + 1, (2 ^ 8) - 1}

NodeBytes == [digest : {LeafDigest(0)}, ptr : PtrBytes]

RawBytes(type) ==
    IF type = "Pair" THEN {<<l, r>> : l \in NodeBytes, r \in NodeBytes}
    ELSE {<<n>> : n \in NodeBytes}

\* ------------------------------------------------------------------ state
VARIABLES
    pool,    \* the caller's live tree handles (a bag), each with the leaf
             \* values it was built from (leaves: bookkeeping, not program
             \* state)
    store,   \* the append-only store: the blobs appended so far
    poll,    \* the save in progress, if any: None or Some(record)
    saved,   \* bookkeeping: one record per completed save
    started, \* bookkeeping: the number of saves started
    heap,    \* the allocator's live blocks
    owns,    \* the owned pointers (Own<T, Offset>, Own<T, OffsetMut>) alive
    last     \* the last operation, its arguments and what it returned

vars == <<pool, store, poll, saved, started, heap, owns, last>>

Handle(tree, leaves) ==
    [raw |-> tree.raw, height |-> tree.height, leaves |-> leaves]

One(h) == SetToBag({h})

Handles == BagToSet(pool)

Idxs == (0 .. MaxIdx) \cup {UsizeMax}

\* The handles of height h that new_leaf and try_join build from leaves.
RECURSIVE BuiltTrees(_)
BuiltTrees(h) ==
    IF h = 0 THEN {Handle(new_leaf(v), <<v>>) : v \in Values}
    ELSE {Handle(try_join(l, r).tree[1], l.leaves \o r.leaves) :
            l \in BuiltTrees(h - 1), r \in BuiltTrees(h - 1)}

Built == UNION {BuiltTrees(h) : h \in 0 .. MaxHeight}

Init ==
    /\ pool = EmptyBag
    /\ store = <<>>
    /\ poll = None
    /\ saved = <<>>
    /\ started = 0
    /\ heap = {}
    /\ owns = {}
    /\ last = [op |-> "init"]

\* The caller holds one tree it has built from leaves.
InitBuilt ==
    /\ pool \in {One(t) : t \in Built}
    /\ store = <<>>
    /\ poll = None
    /\ saved = <<>>
    /\ started = 0
    /\ heap = {}
    /\ owns = {}
    /\ last = [op |-> "init"]

\* A store that holds trees up to the largest height in little room: the
\* two children of every pair are one and the same blob, as a save writes
\* them when a tree is joined from two loads of the same tree.  The store
\* is a value, the pairs of heights 1 .. HeightMax, and the roots of the
\* TopSpan + 1 largest heights.  The digest of the tree of height h is kept
\* as a name: written out, the term has 2^h leaves.
TallDigest(h) == <<"tall", h>>

TallOff(h) == IF h = 0 THEN 0 ELSE ValueSize + (h - 1) * PairSize

TallNode(h) == [digest |-> TallDigest(h), ptr |-> TallOff(h)]

TallRootOff(k) == ValueSize + HeightMax * PairSize + k * TreeSize

TallStore ==
    <<ValueBlob(0, 0)>>
    \o [h \in 1 .. HeightMax |->
            PairBlob(TallOff(h), TallNode(h - 1), TallNode(h - 1))]
    \o [k \in 1 .. TopSpan + 1 |->
            TreeBlob(TallRootOff(k - 1), TallNode(HeightMax - TopSpan + k - 1),
                     HeightMax - TopSpan + k - 1)]

\* The caller holds nothing yet and opens the tall store.
InitTop ==
    /\ pool = EmptyBag
    /\ store = TallStore
    /\ poll = None
    /\ saved = <<>>
    /\ started = 0
    /\ heap = {}
    /\ owns = {}
    /\ last = [op |-> "init"]

\* The caller drives one save at a time: it polls it to completion or
\* abandons it before its next tree operation, as Saver::try_save does.
Idle == poll = None

\* PerfectTree::new_leaf(v)
NewLeaf(v) ==
    /\ Idle
    /\ BagCardinality(pool) < MaxPool
    /\ pool' = pool (+) One(Handle(new_leaf(v), <<v>>))
    /\ last' = [op |-> "new_leaf", tree |-> new_leaf(v)]
    /\ UNCHANGED <<store, poll, saved, started, heap, owns>>

\* PerfectTree::try_join(l, r): both operands are moved in; Ok gives the
\* joined tree, Err gives both back, a panic unwinds and drops them.
Join(l, r) ==
    /\ Idle
    /\ l # r \/ CopiesIn(l, pool) > 1
    /\ LET j == try_join(l, r)
           rest == (pool (-) One(l)) (-) One(r)
       IN  /\ pool' = CASE j.outcome = "ok" ->
                            rest (+) One(Handle(j.tree[1], l.leaves \o r.leaves))
                         [] j.outcome = "err" ->
                            (rest (+) One(Handle(j.back[1], l.leaves)))
                                  (+) One(Handle(j.back[2], r.leaves))
                         [] j.outcome = "panic" -> rest
           /\ last' = [op |-> "try_join", left |-> l, right |-> r,
                       outcome |-> j.outcome, tree |-> j.tree, back |-> j.back]
    /\ UNCHANGED <<store, poll, saved, started, heap, owns>>

\* try_join offered while the joined tree stays within MaxHeight.
TryJoin(l, r) ==
    /\ l.height # r.height \/ l.height < MaxHeight
    /\ Join(l, r)

\* Dropping a handle.
Drop(h) ==
    /\ Idle
    /\ pool' = pool (-) One(h)
    /\ last' = [op |-> "drop", tree |-> h]
    /\ UNCHANGED <<store, poll, saved, started, heap, owns>>

\* PerfectTreeDyn::get(idx) on h
Get(h, idx) ==
    /\ Idle
    /\ last' = [op |-> "get", tree |-> h, idx |-> idx,
                result |-> get(store, h, idx)]
    /\ UNCHANGED <<pool, store, poll, saved, started, heap, owns>>

\* PerfectTreeDyn::to_commitment on h: memoizes digests on the way.
ToCommitment(h) ==
    /\ Idle
    /\ LET c == to_commitment(h.raw, h.height)
       IN  /\ pool' = (pool (-) One(h)) (+) One([h EXCEPT !.raw = c.raw])
           /\ last' = [op |-> "to_commitment", tree |-> h,
                       digest |-> c.digest, panic |-> c.panic]
    /\ UNCHANGED <<store, poll, saved, started, heap, owns>>

\* Save::init_save on h: builds the poll, memoizing digests.  The record
\* keeps, next to the poll p, the handle before (tree0) and after (tree)
\* init, the poll as built (p0) and the store's size when the save began.
InitSave(h) ==
    /\ Idle
    /\ started < MaxSaves
    /\ started' = started + 1
    /\ LET r == init_save_ref(h.raw, h.height)
           t == [h EXCEPT !.raw = r.raw]
       IN  /\ pool' = (pool (-) One(h)) (+) One(t)
           /\ poll' = Some([p |-> r.poll, ok |-> FALSE, tree |-> t,
                            tree0 |-> h, p0 |-> r.poll,
                            blobs |-> Len(store), bytes |-> StoreLen(store)])
           /\ last' = [op |-> "init_save", tree |-> h, panic |-> r.panic]
    /\ UNCHANGED <<store, saved, heap, owns>>

\* SavePoll::save_poll, one call; the store fails its failAt-th operation
\* of the call (0: none).
SavePoll(failAt) ==
    /\ poll # None
    /\ LET r == save_poll(poll[1].p, Saver(store, failAt))
       IN  /\ store' = r.sv.store
           /\ poll' = Some([poll[1] EXCEPT !.p = r.poll, !.ok = r.ok])
           /\ last' = [op |-> "save_poll", ok |-> r.ok, failAt |-> failAt,
                       n |-> r.sv.n, before |-> poll[1].p,
                       storeBefore |-> store]
    /\ UNCHANGED <<pool, saved, started, heap, owns>>

\* The tail of Saver::try_save after save_poll returned Ok: encode the root
\* blob, append it, return its offset.
SaveFinish ==
    /\ poll # None
    /\ poll[1].ok
    /\ LET off == StoreLen(store)
           rec == [root |-> off, tree |-> poll[1].tree,
                   tree0 |-> poll[1].tree0, p0 |-> poll[1].p0,
                   p |-> poll[1].p, first |-> poll[1].blobs + 1,
                   startLen |-> poll[1].bytes, endLen |-> off + TreeSize]
       IN  /\ store' = Append(store, encode_blob(off, poll[1].p))
           /\ saved' = Append(saved, rec)
           /\ last' = [op |-> "save", root |-> off]
    /\ poll' = None
    /\ UNCHANGED <<pool, started, heap, owns>>

\* Abandoning a save mid-walk: the poll is dropped, the store keeps what
\* was appended.
SaveCancel ==
    /\ poll # None
    /\ poll' = None
    /\ last' = [op |-> "cancel"]
    /\ UNCHANGED <<pool, store, saved, started, heap, owns>>

\* Load for PerfectTree from the root blob store[k].
Load(k) ==
    /\ Idle
    /\ BagCardinality(pool) < MaxPool
    /\ store[k].kind = "tree"
    /\ \E s \in 1 .. Len(saved) :
          /\ saved[s].root = store[k].off
          /\ pool' = pool (+) One(Handle(load(store[k]), saved[s].tree.leaves))
    /\ last' = [op |-> "load", off |-> store[k].off, tree |-> load(store[k])]
    /\ UNCHANGED <<store, poll, saved, started, heap, owns>>

\* PerfectTree::into_kind, Tip::into_get_pair and Pair::into_split on h: the
\* tip is taken apart into its two children.
IntoSplit(h) ==
    /\ Idle
    /\ BagCardinality(pool) < MaxPool
    /\ into_kind(Tree(h.raw, h.height)).kind = "Tip"
    /\ get_pair(store, h.raw) # <<>>
    /\ LET kids == into_split(get_pair(store, h.raw), h.height)
           half == Len(h.leaves) \div 2
           l == Handle(kids[1], SubSeq(h.leaves, 1, half))
           r == Handle(kids[2], SubSeq(h.leaves, half + 1, Len(h.leaves)))
       IN  /\ pool' = ((pool (-) One(h)) (+) One(l)) (+) One(r)
           /\ last' = [op |-> "into_split", tree |-> h, left |-> l, right |-> r]
    /\ UNCHANGED <<store, poll, saved, started, heap, owns>>

\* Load for PerfectTree from a root blob of the tall store; the leaves of
\* so tall a tree are not kept.
LoadTall(k) ==
    /\ Idle
    /\ BagCardinality(pool) < MaxPool
    /\ store[k].kind = "tree"
    /\ pool' = pool (+) One(Handle(load(store[k]), <<>>))
    /\ last' = [op |-> "load", off |-> store[k].off, tree |-> load(store[k])]
    /\ UNCHANGED <<store, poll, saved, started, heap, owns>>

\* The pointee layout of the values behind clean pointers (a u8).
ValueLayout == [size |-> ValueSize, align |-> ValueSize]

\* Offset::new(offset); an accepted offset becomes an owned clean pointer.
OffsetNew(offset) ==
    /\ LET r == Offset_new(offset)
       IN  /\ owns' = IF r.result # None /\ Cardinality(owns) < MaxOwned
                      THEN owns \cup {Own("Offset", r.result[1], ValueLayout,
                                          [clean |-> TRUE, at |-> offset])}
                      ELSE owns
           /\ last' = [op |-> "Offset::new", offset |-> offset,
                       result |-> r.result, panic |-> r.panic]
    /\ UNCHANGED <<pool, store, poll, saved, started, heap>>

\* From<Offset> for OffsetMut: the same raw value.
FromOffset(p) ==
    /\ p.type = "Offset"
    /\ owns' = (owns \ {p}) \cup {[p EXCEPT !.type = "OffsetMut"]}
    /\ last' = [op |-> "from", ptr |-> p]
    /\ UNCHANGED <<pool, store, poll, saved, started, heap>>

\* OffsetMut::alloc of a value of the given layout that holds the owned
\* pointers kids: allocate with fix_layout (a zero-sized value gets the
\* alignment as its address), copy, from_ptr.  A from_ptr panic leaves the
\* block allocated and the value with the caller.
AllocIn(addrs, layout, kids) ==
    /\ Cardinality(kids) \in {0, 2}
    /\ kids # {} => layout.size > 0
    /\ \A k \in kids : k.type = "OffsetMut"
    /\ Cardinality(owns \ kids) < MaxOwned
    /\ LET fl == fix_layout(layout)
       IN  \E a \in (IF fl.size > 0 THEN FreeIn(addrs, heap, fl)
                      ELSE {fl.align}) :
             LET fp == from_ptr(a)
             IN  /\ heap' = IF fl.size > 0
                            THEN heap \cup {Block(a, fl,
                                    IF fp.panic THEN {} ELSE kids)}
                            ELSE heap
                 /\ owns' = IF fp.panic THEN owns
                            ELSE (owns \ kids) \cup
                                 {Own("OffsetMut", fp.raw, layout,
                                      [clean |-> FALSE, at |-> U64(a)])}
                 /\ last' = [op |-> "alloc", layout |-> layout, fixed |-> fl,
                             addr |-> a,
                             outcome |-> IF fp.panic THEN "panic" ELSE "ok"]
    /\ UNCHANGED <<pool, store, poll, saved, started>>

Alloc(layout, kids) == AllocIn(Addrs, layout, kids)

\* OffsetMut::kind on an owned pointer.
KindOf(p) ==
    /\ p.type = "OffsetMut"
    /\ last' = [op |-> "kind", ptr |-> p, result |-> kind(p.raw)]
    /\ UNCHANGED <<pool, store, poll, saved, started, heap, owns>>

\* Dropping an owned pointer: Ptr::dealloc_own.  Neither implementation
\* frees anything: Offset's does nothing, OffsetMut's panics.
DropOwn(p) ==
    /\ owns' = owns \ {p}
    /\ last' = [op |-> "drop", ptr |-> p, outcome |-> dealloc_own(p.type),
                heapBefore |-> heap, reach |-> Reach(heap, p)]
    /\ UNCHANGED <<pool, store, poll, saved, started, heap>>

\* OffsetMut::try_take: a clean pointer is handed back as its Offset; a
\* dirty one gives the value (and the pointers it holds) and frees the
\* block with fix_layout of the value's layout.
TryTake(p) ==
    /\ p.type = "OffsetMut"
    /\ LET k == kind(p.raw)
           bs == {b \in heap : U64(b.addr) = p.raw /\ p.layout.size > 0}
       IN  IF k.kind = "Offset"
           THEN /\ owns' = (owns \ {p}) \cup {[p EXCEPT !.type = "Offset"]}
                /\ heap' = heap
                /\ last' = [op |-> "try_take", ptr |-> p, outcome |-> "err",
                            freed |-> {}, heapBefore |-> heap,
                            layout |-> p.layout]
           ELSE /\ owns' = (owns \ {p}) \cup UNION {b.kids : b \in bs}
                /\ heap' = IF try_take_layout(p.layout).size > 0
                           THEN heap \ bs ELSE heap
                /\ last' = [op |-> "try_take", ptr |-> p, outcome |-> "ok",
                            freed |-> bs, heapBefore |-> heap,
                            layout |-> try_take_layout(p.layout)]
    /\ UNCHANGED <<pool, store, poll, saved, started>>

\* Building trees from nothing.
Next ==
    \/ \E v \in Values : NewLeaf(v)
    \/ \E l, r \in Handles : TryJoin(l, r)
    \/ \E h \in Handles : Drop(h)

Spec == Init /\ [][Next]_vars

\* Reading a built tree.
NextRead ==
    \/ \E h \in Handles, idx \in Idxs : Get(h, idx)
    \/ \E h \in Handles : ToCommitment(h)

SpecRead == InitBuilt /\ [][NextRead]_vars

\* Saving a built tree, loading it back, joining what was loaded with what
\* is held, and saving again.
NextSave ==
    \/ \E h \in Handles : InitSave(h)
    \/ \E f \in 0 .. MaxFailAt : SavePoll(f)
    \/ SaveFinish
    \/ SaveCancel
    \/ \E k \in 1 .. Len(store) : Load(k)
    \/ \E l, r \in Handles : TryJoin(l, r)

SpecSave == InitBuilt /\ [][NextSave]_vars

\* Committing to a built tree, saving it, loading it back and joining what
\* was loaded with what is held, in any order.
NextCommit ==
    \/ \E h \in Handles : ToCommitment(h)
    \/ \E l, r \in Handles : TryJoin(l, r)
    \/ \E h \in Handles : InitSave(h)
    \/ SavePoll(0)
    \/ SaveFinish
    \/ \E k \in 1 .. Len(store) : Load(k)

SpecCommit == InitBuilt /\ [][NextCommit]_vars

\* Taking a built tree apart and putting trees together, saving and
\* loading in between.
NextShape ==
    \/ \E h \in Handles : IntoSplit(h)
    \/ \E l, r \in Handles : TryJoin(l, r)
    \/ \E h \in Handles : started < MaxShapeSaves /\ InitSave(h)
    \/ SavePoll(0)
    \/ SaveFinish
    \/ \E k \in 1 .. Len(store) : Load(k)

SpecShape == InitBuilt /\ [][NextShape]_vars

\* Reading, committing to, saving and loading a built tree: the operations
\* that take the tree by shared reference.
NextMemo ==
    \/ \E h \in Handles, idx \in Idxs : Get(h, idx)
    \/ \E h \in Handles : ToCommitment(h)
    \/ \E h \in Handles : InitSave(h)
    \/ SavePoll(0)
    \/ SaveFinish
    \/ \E k \in 1 .. Len(store) : Load(k)

SpecMemo == InitBuilt /\ [][NextMemo]_vars

\* Loading, joining, splitting and dropping trees of the largest heights;
\* a split is offered while its halves stay among them.
NextTop ==
    \/ \E k \in 1 .. Len(store) : LoadTall(k)
    \/ \E l, r \in Handles : Join(l, r)
    \/ \E h \in Handles : h.height > HeightMax - TopSpan /\ IntoSplit(h)
    \/ \E h \in Handles : Drop(h)

SpecTop == InitTop /\ [][NextTop]_vars

\* Clean and dirty pointers: making, classifying, taking and dropping them.
\* Blob::decode_bytes on the bytes of a blob of the given type.
DecodeBytes(type, nodes, byte) ==
    /\ last' = [op |-> "decode_bytes", type |-> type, nodes |-> nodes,
                byte |-> byte, result |-> decode_bytes(type, nodes, byte)]
    /\ UNCHANGED <<pool, store, poll, saved, started, heap, owns>>

NextDecode ==
    \E type \in BlobTypes, byte \in HeightBytes :
        \E nodes \in RawBytes(type) : DecodeBytes(type, nodes, byte)

SpecDecode == Init /\ [][NextDecode]_vars

\* Allocating values, some holding owned pointers, and taking them back
\* out, next to clean pointers.
NextTake ==
    \/ OffsetNew(U64(1))
    \/ \E p \in owns : FromOffset(p)
    \/ \E l \in TakeLayouts, kids \in SUBSET owns : AllocIn(TakeAddrs, l, kids)
    \/ \E p \in owns : TryTake(p)

SpecTake == Init /\ [][NextTake]_vars

NextPtr ==
    \/ \E o \in OffsetInputs : OffsetNew(o)
    \/ \E p \in owns : FromOffset(p)
    \/ \E l \in Layouts, kids \in SUBSET owns : Alloc(l, kids)
    \/ \E p \in owns : KindOf(p)
    \/ \E p \in owns : DropOwn(p)
    \/ \E p \in owns : TryTake(p)

SpecPtr == Init /\ [][NextPtr]_vars

\* ----------------------------------------------------------------- claims

IsPrefix(a, b) == Len(a) <= Len(b) /\ SubSeq(b, 1, Len(a)) = a

\* The blobs appended since the store had n blobs.
Appended(st, n) == SubSeq(st, n + 1, Len(st))

\* The number of bytes a completed save appended, root blob included.
SaveBytes(s) == s.endLen - s.startLen

\* Save b is a save of the tree save a saved, begun where save a ended.
SavedAgain(a, b) ==
    /\ a < b
    /\ saved[b].tree0 = saved[a].tree
    /\ saved[b].startLen = saved[a].endLen

DiffersInOneLeaf(a, b) ==
    /\ Len(a) = Len(b)
    /\ Cardinality({i \in 1 .. Len(a) : a[i] # b[i]}) = 1

\* What a blob holds, its position aside: its kind, its value, the digests
\* of its nodes.
Content(b) ==
    [kind |-> b.kind, val |-> b.val,
     digests |-> [i \in 1 .. Len(b.nodes) |-> b.nodes[i].digest]]

\* The blobs a poll has to append, children before their parent, left
\* before right.
RECURSIVE PostOrder(_)
PostOrder(p) ==
    IF p.state # "Dirty" THEN <<>>
    ELSE IF p.leaf
         THEN <<[kind |-> "value", val |-> p.val, digests |-> <<>>]>>
         ELSE PostOrder(p.kids[1]) \o PostOrder(p.kids[2])
                \o <<[kind |-> "pair", val |-> 0,
                      digests |-> <<p.kids[1].digest, p.kids[2].digest>>]>>

\* The number of dirty nodes under a poll.
RECURSIVE DirtyCount(_)
DirtyCount(p) ==
    IF p.state # "Dirty" THEN 0
    ELSE IF p.leaf THEN 1
         ELSE 1 + DirtyCount(p.kids[1]) + DirtyCount(p.kids[2])

\* The number of store operations a poll has left: one per node that is
\* not Done, nothing below a clean node.
RECURSIVE PendingCount(_)
PendingCount(p) ==
    IF p.state = "Done" THEN 0
    ELSE IF p.state = "Clean" \/ p.leaf THEN 1
         ELSE 1 + PendingCount(p.kids[1]) + PendingCount(p.kids[2])

\* Two nodes with the same pointers all the way down, whatever digests
\* they have memoized.
RECURSIVE SamePointers(_, _)
SamePointers(a, b) ==
    /\ a.clean = b.clean
    /\ a.off = b.off
    /\ a.val = b.val
    /\ Len(a.kids) = Len(b.kids)
    /\ \A k \in 1 .. Len(a.kids) : SamePointers(a.kids[k], b.kids[k])

\* The store holds, at off, what the poll p (as built by init) had to
\* persist: a clean node is its own offset, a dirty leaf a value blob, a
\* dirty tip a pair blob whose two nodes are its children's digests and
\* persisted offsets.
RECURSIVE Persisted(_, _, _)
Persisted(st, p, off) ==
    IF p.state # "Dirty" THEN off = p.ptr
    ELSE IF p.leaf
         THEN LET b == BlobAt(st, off, "value")
              IN  b.kind = "value" /\ b.val = p.val
         ELSE LET b == BlobAt(st, off, "pair")
              IN  /\ b.kind = "pair"
                  /\ \A k \in 1 .. 2 :
                        /\ b.nodes[k].digest = p.kids[k].digest
                        /\ Persisted(st, p.kids[k], b.nodes[k].ptr)

\* Every node of the poll p that is not dirty appears in what was written
\* at off with the offset it already had.
RECURSIVE CleanEmitted(_, _, _)
CleanEmitted(st, p, off) ==
    IF p.state # "Dirty" THEN off = p.ptr
    ELSE IF p.leaf THEN TRUE
         ELSE LET b == BlobAt(st, off, "pair")
              IN  /\ b.kind = "pair"
                  /\ \A k \in 1 .. 2 :
                        CleanEmitted(st, p.kids[k], b.nodes[k].ptr)

\* The bytes of the store before blob k.
RECURSIVE BytesBefore(_, _)
BytesBefore(st, k) ==
    IF k <= 1 THEN 0 ELSE BytesBefore(st, k - 1) + st[k - 1].size

\* The node n, written in blob k, points at an earlier blob of the kind
\* its digest commits to.
PointsAtTarget(st, n, k) ==
    \E m \in 1 .. k - 1 :
        /\ st[m].off = n.ptr
        /\ \/ st[m].kind = "value" /\ n.digest = LeafDigest(st[m].val)
           \/ st[m].kind = "pair" /\ n.digest[1] = "pair"

\* 2 * x + 1 on 64 bits, by addition with carry.
TwicePlusOne(x) ==
    LET s1 == (2 * x[1]) + 1
        s2 == (2 * x[2]) + (s1 \div Limb)
        s3 == (2 * x[3]) + (s2 \div Limb)
        s4 == (2 * x[4]) + (s3 \div Limb)
    IN  <<s1 % Limb, s2 % Limb, s3 % Limb, s4 % Limb>>

\* C1: try_join of two trees of unequal height returns Err carrying both
\* operands unmodified; it never panics.
C1_MismatchIsErr ==
    (last.op = "try_join" /\ last.left.height # last.right.height)
        => (last.outcome = "err" /\ last.back = <<last.left, last.right>>)

C3_LeafChangesDigest ==
    last.op = "to_commitment" =>
        \A t \in BuiltTrees(last.tree.height) :
            DiffersInOneLeaf(t.leaves, last.tree.leaves)
                => to_commitment(t.raw, t.height).digest # last.digest

\* C4: loading at the root offset a save returned gives a tree of the saved
\* tree's height, with the saved tree's leaves (get(i) agrees for every i)
\* and the saved tree's root digest.
C4_RoundTrip ==
    last.op = "load" =>
        \A s \in 1 .. Len(saved) :
            saved[s].root = last.off =>
                LET t == saved[s].tree
                    l == last.tree
                IN  /\ l.height = t.height
                    /\ Leaves(store, l.raw, l.height) = t.leaves
                    /\ \A i \in 0 .. from_height(t.height) :
                          /\ get(store, l, i) = get(store, t, i)
                          /\ i < from_height(t.height)
                                => get(store, l, i) = Some(t.leaves[i + 1])
                    /\ to_commitment(l.raw, l.height).digest
                          = to_commitment(t.raw, t.height).digest

C4_Witness ==
    /\ last.op = "load"
    /\ last.tree.height = 2
    /\ \E s \in 1 .. Len(saved) :
          /\ saved[s].root = last.off
          /\ saved[s].tree.leaves = <<0, 1, 1, 0>>
          /\ ~saved[s].tree.raw.clean

\* C5: during a save the blobs appended so far are, in order, a prefix of
\* the post-order walk of the dirty nodes (all of it once the poll returned
\* Ok), and every offset a pair blob holds is the offset of a value or pair
\* blob appended before it.
C5_PostOrder ==
    poll # None =>
        LET app == Appended(store, poll[1].blobs)
        IN  /\ IsPrefix([i \in 1 .. Len(app) |-> Content(app[i])],
                        PostOrder(poll[1].p0))
            /\ poll[1].ok => Len(app) = Len(PostOrder(poll[1].p0))
            /\ \A k \in poll[1].blobs + 1 .. Len(store) :
                  store[k].kind = "pair" =>
                      \A j \in 1 .. 2 : \E m \in 1 .. k - 1 :
                          /\ store[m].off = store[k].nodes[j].ptr
                          /\ store[m].kind \in {"value", "pair"}

C5_Witness ==
    /\ poll # None
    /\ poll[1].ok
    /\ poll[1].p0.height = 2
    /\ Len(PostOrder(poll[1].p0)) = 7
    /\ Len(Appended(store, poll[1].blobs)) = 7

\* C6: on a tree built from leaves v0 .. v(2^h - 1), get(i) is Some(vi) for
\* i < 2^h and None for every larger i, usize::MAX included.
C6_IndexedGet ==
    last.op = "get" =>
        /\ Len(last.tree.leaves) = 2 ^ last.tree.height
        /\ last.result = IF last.idx < Len(last.tree.leaves)
                         THEN Some(last.tree.leaves[last.idx + 1])
                         ELSE None

C6_Witness ==
    /\ last.op = "get"
    /\ last.tree.height = 2
    /\ last.idx = 2
    /\ last.tree.leaves[3] # last.tree.leaves[1]
    /\ last.result = Some(last.tree.leaves[3])

\* C7: a successful try_join had operands of equal height and gives a tree
\* one higher; new_leaf gives height 0.
C7_JoinHeight ==
    /\ (last.op = "try_join" /\ last.outcome = "ok")
          => /\ last.left.height = last.right.height
             /\ last.tree[1].height = last.left.height + 1
    /\ last.op = "new_leaf" => last.tree.height = 0

C7_Witness ==
    /\ last.op = "try_join"
    /\ last.outcome = "ok"
    /\ last.left.height = 1
    /\ last.tree[1].height = 2

C10_StoreFailure ==
    (last.op = "save_poll" /\ ~last.ok) =>
        /\ last.failAt > 0
        /\ last.n = last.failAt
        /\ poll # None /\ ~poll[1].ok
        /\ IsPrefix(last.storeBefore, store)
        /\ Len(store) - Len(last.storeBefore) <= last.failAt - 1

C10_Witness ==
    /\ last.op = "save_poll"
    /\ ~last.ok
    /\ last.failAt = 3
    /\ Len(store) - Len(last.storeBefore) = 2

\* C11: saving a height-1 tree of two dirty leaves to an empty store
\* appends the left value at 0, the right value at 1, the pair blob (two
\* nodes, digest then pointer to the value) at 2 and the root blob (pair
\* digest, pointer 2, height 1) at 82, 123 bytes in all; in every store
\* each blob starts where the previous one ended, each pointer written is
\* the offset of its target blob, and a save's root offset is the number of
\* bytes before the root blob.
C11_SaveLayout ==
    /\ \A k \in 1 .. Len(store) :
          /\ store[k].off = BytesBefore(store, k)
          /\ \A j \in 1 .. Len(store[k].nodes) :
                PointsAtTarget(store, store[k].nodes[j], k)
    /\ \A s \in 1 .. Len(saved) :
          \E k \in 1 .. Len(store) :
              /\ store[k].kind = "tree"
              /\ saved[s].root = BytesBefore(store, k)
              /\ saved[s].endLen = saved[s].root + TreeSize
    /\ \A s \in 1 .. Len(saved) :
          LET t == saved[s].tree0
          IN  (/\ saved[s].startLen = 0
               /\ t.height = 1
               /\ ~t.raw.clean
               /\ \A k \in 1 .. 2 : ~t.raw.kids[k].clean)
              => /\ saved[s].root = 82
                 /\ saved[s].endLen = 123
                 /\ SubSeq(store, 1, 4)
                      = << ValueBlob(0, t.leaves[1]),
                           ValueBlob(1, t.leaves[2]),
                           PairBlob(2,
                              [digest |-> LeafDigest(t.leaves[1]), ptr |-> 0],
                              [digest |-> LeafDigest(t.leaves[2]), ptr |-> 1]),
                           TreeBlob(82,
                              [digest |-> saved[s].tree.raw.digest[1],
                               ptr |-> 2], 1) >>

C11_Witness ==
    /\ last.op = "save"
    /\ Len(saved) = 1
    /\ saved[1].tree0.height = 1
    /\ saved[1].tree0.leaves = <<0, 1>>
    /\ saved[1].startLen = 0
    /\ StoreLen(store) = 123

\* C12: dropping a dirty OffsetMut-owned value completes without panic and
\* leaves none of the heap blocks reachable from it allocated.
C12_DirtyDropFrees ==
    (last.op = "drop" /\ last.ptr.type = "OffsetMut"
                      /\ LowBit(last.ptr.raw) = 0)
        => /\ last.outcome = "ok"
           /\ last.reach \cap heap = {}

\* C13: dropping a clean pointer (an Offset, or an OffsetMut holding an
\* offset) does not panic, frees nothing and leaves the store as it is.
C13_CleanDropInert ==
    (last.op = "drop" /\ (last.ptr.type = "Offset" \/ LowBit(last.ptr.raw) = 1))
        => /\ last.outcome = "ok"
           /\ heap = last.heapBefore
           /\ store = <<>>

\* C14: every allocation for a dirty OffsetMut uses alignment at least 2,
\* its address has the low bit clear and from_ptr's assertion holds.
C14_AllocAligned ==
    last.op = "alloc"
        => /\ last.fixed.align >= 2
           /\ last.addr % 2 = 0
           /\ last.outcome = "ok"

\* C15: Offset::new(o) never panics, is Some exactly when o < 2^62, and
\* then the raw value is 2 * o + 1 on 64 bits: non-zero, low bit set, and
\* get() gives o back.
C15_OffsetRange ==
    last.op = "Offset::new"
        => /\ ~last.panic
           /\ last.result # None <=> last.offset[4] < Limb \div 4
           /\ last.result # None
                => LET raw == last.result[1]
                   IN  /\ Len(raw) = 4
                       /\ \A i \in 1 .. 4 : raw[i] \in 0 .. Limb - 1
                       /\ raw # U64(0)
                       /\ raw = TwicePlusOne(last.offset)
                       /\ Offset_get(raw) = last.offset

C15_Witness ==
    /\ last.op = "Offset::new"
    /\ last.offset = OffsetMAX
    /\ last.result = Some(<<Limb - 1, Limb - 1, Limb - 1, (Limb \div 2) - 1>>)

\* C16: kind() is Offset exactly when the raw value's low bit is set; a
\* pointer made from Offset::new(o) is classified Offset with get() = o, a
\* pointer made by from_ptr(p) is classified Ptr(p).
C16_KindDiscriminates ==
    last.op = "kind"
        => LET r == last.result
               from == last.ptr.from
           IN  /\ r.kind = "Offset" <=> LowBit(last.ptr.raw) = 1
               /\ from.clean => r.kind = "Offset" /\ Offset_get(r.raw) = from.at
               /\ ~from.clean => r.kind = "Ptr" /\ r.raw = from.at

C16_Witness ==
    /\ last.op = "kind"
    /\ last.ptr.from.clean
    /\ last.ptr.from.at = OffsetMAX
    /\ last.result.kind = "Offset"
    /\ \E q \in owns : ~q.from.clean /\ kind(q.raw).kind = "Ptr"

\* C17: pair_commit is a read-through cache.  On a tip that carries a
\* memoized digest it returns that digest and leaves the tip as it is; on
\* a tip without one it hashes the pair's commitment, stores the digest in
\* the tip and returns it; it never panics on a tip the program can hold,
\* and a second call on the tip it left behind returns the same digest
\* from the memo without touching the tip again.
C17_ReadThroughCache ==
    (last.op = "to_commitment" /\ last.tree.height > 0) =>
        LET raw == last.tree.raw
            height == last.tree.height
            first == pair_commit(raw, height)
            again == pair_commit(first.raw, height)
        IN  /\ ~last.panic /\ ~first.panic
            /\ last.digest = first.digest
            /\ raw.digest # None =>
                  first.digest = raw.digest[1] /\ first.raw = raw
            /\ raw.digest = None =>
                  /\ first.digest =
                        LET c == PairToCommitment(raw.kids, height)
                        IN  HashCommit(c.left, c.right, height)
                  /\ first.raw.digest = Some(first.digest)
            /\ first.raw.digest = Some(first.digest)
            /\ ~again.panic
            /\ again.digest = first.digest
            /\ again.raw = first.raw

\* A commitment was asked of a tip that was loaded from the store: its pair
\* is not in memory, only the memoized digest can answer.
C17_Witness ==
    /\ last.op = "to_commitment"
    /\ last.tree.height > 0
    /\ last.tree.raw.clean
    /\ last.tree.raw.digest # None
    /\ ~last.panic

\* The root digest of the tree that new_leaf and try_join build afresh from
\* the given leaves, nothing memoized before the call.
FreshDigest(leaves) ==
    LET f == CHOOSE b \in Built : b.leaves = leaves
    IN  to_commitment(f.raw, f.height).digest

\* C18: digest determinism.  Every tree the caller holds commits, without
\* panicking, to the digest of a freshly built tree with the same leaves
\* in the same order, whether it was joined from dirty, memoized or loaded
\* parts and whatever was called on it before; the digest a commitment
\* returned and the root digest a save wrote are that digest too.
C18_DigestDeterminism ==
    /\ \A h \in Handles :
          LET c == to_commitment(h.raw, h.height)
          IN  ~c.panic /\ c.digest = FreshDigest(h.leaves)
    /\ last.op = "to_commitment" =>
          ~last.panic /\ last.digest = FreshDigest(last.tree.leaves)
    /\ \A s \in 1 .. Len(saved) :
          BlobAt(store, saved[s].root, "tree").nodes[1].digest
              = FreshDigest(saved[s].tree.leaves)

\* The caller holds two trees with the same leaves of which one is loaded
\* (clean) and the other in memory with no digest memoized at its root,
\* and a commitment has just been taken.
C18_Witness ==
    /\ last.op = "to_commitment"
    /\ \E a, b \in Handles :
          /\ a.leaves = b.leaves
          /\ a.height > 0
          /\ a.raw.clean
          /\ ~b.raw.clean
          /\ b.raw.digest = None

RECURSIVE ActualHeight(_, _)

\* The height of the structure beneath a node, found by walking it: 0 for
\* a value, one more than its children's common height for a pair, -1 when
\* the children differ or a clean pointer leads to no value and no pair.
ActualHeight(st, raw) ==
    LET pair == IF raw.clean /\ BlobAt(st, raw.off, "value").kind = "value"
                THEN <<>>
                ELSE get_pair(st, raw)
        isLeaf == IF raw.clean
                  THEN BlobAt(st, raw.off, "value").kind = "value"
                  ELSE raw.kids = <<>>
    IN  IF isLeaf THEN 0
        ELSE IF pair = <<>> THEN -1
        ELSE LET l == ActualHeight(st, pair[1])
                 r == ActualHeight(st, pair[2])
             IN  IF l >= 0 /\ l = r THEN l + 1 ELSE -1

\* C20: metadata consistency.  Every handle the caller holds, however it
\* came out of new_leaf, try_join, into_split, into_kind and load, stores
\* the height of the structure beneath it and has 2^height leaves; a
\* handle of height 0 is a leaf, one of height > 0 is a tip whose pair
\* splits into two children of height - 1 that are consistent themselves.
C20_MetadataConsistent ==
    \A h \in Handles :
        /\ ActualHeight(store, h.raw) = h.height
        /\ Len(Leaves(store, h.raw, h.height)) = from_height(h.height)
        /\ Len(Leaves(store, h.raw, h.height)) = 2 ^ h.height
        /\ Leaves(store, h.raw, h.height) = h.leaves
        /\ (h.height = 0) <=> (into_kind(Tree(h.raw, h.height)).kind = "Leaf")
        /\ h.height > 0 =>
              /\ into_kind(Tree(h.raw, h.height)).kind = "Tip"
              /\ get_pair(store, h.raw) # <<>>
              /\ LET kids == into_split(get_pair(store, h.raw), h.height)
                 IN  \A i \in 1 .. 2 :
                        /\ kids[i].height = h.height - 1
                        /\ ActualHeight(store, kids[i].raw) = kids[i].height

\* A loaded tree of the largest height was split, and the caller holds the
\* two halves.
C20_Witness ==
    /\ last.op = "into_split"
    /\ last.tree.raw.clean
    /\ last.tree.height = MaxHeight
    /\ last.left \in Handles
    /\ last.right \in Handles
    /\ last.left.height = MaxHeight - 1

\* C19: construction errors hand the operands back.  try_join on two
\* trees of equal height whose height cannot be incremented (HeightMax)
\* does not panic and builds no node: it returns Err with the two trees
\* as they were passed, and the caller holds both again, the store
\* untouched.
C19_TopJoinHandsBack ==
    (/\ last.op = "try_join"
     /\ last.left.height = last.right.height
     /\ try_increment(last.left.height) = None) =>
        /\ last.outcome = "err"
        /\ last.tree = None
        /\ last.back = <<last.left, last.right>>
        /\ last.left \in Handles
        /\ last.right \in Handles
        /\ last.left = last.right => CopiesIn(last.left, pool) >= 2
        /\ store = TallStore

\* Two trees of the largest height were passed to try_join, one of them
\* loaded and one joined in memory.
C19_Witness ==
    /\ last.op = "try_join"
    /\ last.left.height = HeightMax
    /\ last.right.height = HeightMax
    /\ last.left.raw.clean
    /\ ~last.right.raw.clean
    /\ last.outcome = "err"

\* The number of dirty tips under a poll: the pairs it still has to append.
RECURSIVE DirtyTipCount(_)
DirtyTipCount(p) ==
    IF p.state # "Dirty" \/ p.leaf THEN 0
    ELSE 1 + DirtyTipCount(p.kids[1]) + DirtyTipCount(p.kids[2])

\* The number of blobs of a kind in a sequence of blobs.
KindCount(blobs, wanted) ==
    Cardinality({k \in 1 .. Len(blobs) : blobs[k].kind = wanted})

\* C21: within one save run every dirty node is persisted exactly once.
\* However often the poll is driven, through store errors or after it has
\* completed, the pair blobs appended so far and the dirty tips still to
\* go add up to the dirty tips the save began with, and so do all blobs
\* and all dirty nodes; once the poll is Done one blob has been appended
\* for every node that was dirty, and driving it again appends nothing.
C21_PersistedOnce ==
    poll # None =>
        LET app == Appended(store, poll[1].blobs)
        IN  /\ KindCount(app, "pair") + DirtyTipCount(poll[1].p)
                  = DirtyTipCount(poll[1].p0)
            /\ Len(app) + DirtyCount(poll[1].p) = DirtyCount(poll[1].p0)
            /\ poll[1].p.state = "Done" =>
                  /\ KindCount(app, "pair") = DirtyTipCount(poll[1].p0)
                  /\ Len(app) = DirtyCount(poll[1].p0)
            /\ (last.op = "save_poll" /\ last.before.state = "Done") =>
                  store = last.storeBefore

\* A poll of a height-2 tree completes in a call that found the left tip
\* already Done: an earlier call had failed after persisting it.
C21_Witness ==
    /\ poll # None
    /\ last.op = "save_poll"
    /\ last.ok
    /\ poll[1].p0.height = 2
    /\ DirtyTipCount(poll[1].p0) = 3
    /\ last.before.state = "Dirty"
    /\ last.before.kids[1].state = "Done"
    /\ last.before.kids[2].state = "Dirty"

RECURSIVE DigestsKept(_, _)
DigestsKept(a, b) ==
    /\ a.clean = b.clean
    /\ a.off = b.off
    /\ a.val = b.val
    /\ a.digest # None => b.digest = a.digest
    /\ Len(a.kids) = Len(b.kids)
    /\ \A k \in 1 .. Len(a.kids) : DigestsKept(a.kids[k], b.kids[k])

\* C23: a memoized digest, once set, stays.  to_commitment (pair_commit)
\* and init_save hand the tree back with every pointer as it was and every
\* digest that was memoized before still memoized with the same value, on
\* clean and on dirty tips alike; get, the save polls and the end of a
\* save do not touch the caller's trees at all.
C23_MemoStays ==
    [][/\ last'.op \in {"to_commitment", "init_save"} =>
             \E t \in BagToSet(pool') :
                 /\ pool' = (pool (-) One(last'.tree)) (+) One(t)
                 /\ t.height = last'.tree.height
                 /\ DigestsKept(last'.tree.raw, t.raw)
                 /\ ~last'.panic
       /\ last'.op \in {"get", "save_poll", "save"} => pool' = pool]_vars

\* A save was begun on a loaded tip, whose digest is memoized and whose
\* pointer is clean, and the caller holds the tip as it was.
C23_Witness ==
    /\ last.op = "init_save"
    /\ last.tree.height > 0
    /\ last.tree.raw.clean
    /\ last.tree.raw.digest # None
    /\ \E t \in Handles : t.raw = last.tree.raw

\* One poll call took the poll node a to the poll node b by the moves the
\* state machine allows: Done stays as it is, Clean stays or goes to Dirty
\* or Done, Dirty stays Dirty (its children moving by the same rules) or
\* goes to Done.
RECURSIVE Moved(_, _)
Moved(a, b) ==
    /\ a.leaf = b.leaf /\ a.height = b.height /\ a.digest = b.digest
    /\ CASE a.state = "Done" -> b = a
         [] a.state = "Clean" ->
               \/ b = a
               \/ b.state \in {"Dirty", "Done"}
         [] a.state = "Dirty" ->
               \/ b.state = "Done"
               \/ /\ b.state = "Dirty"
                  /\ Len(b.kids) = Len(a.kids)
                  /\ \A k \in 1 .. Len(a.kids) : Moved(a.kids[k], b.kids[k])

C25_TypedDecodeErrors ==
    last.op = "decode_bytes" =>
        LET r == last.result
            rawBad == \E k \in 1 .. Len(last.nodes) :
                          \/ LowBit(last.nodes[k].ptr) = 0
                          \/ ~U64Leq(Shr1(last.nodes[k].ptr), OffsetMAX)
            heightBad == \/ last.byte > HeightMax
                         \/ last.byte = 0 /\ last.type # "PerfectTree"
        IN  /\ ~r.panic
            /\ r.read[1] = "raw"
            /\ rawBad => ~r.ok /\ r.err = "Raw" /\ r.read = <<"raw">>
            /\ (~rawBad /\ heightBad) =>
                  ~r.ok /\ r.err = "Height" /\ r.read = <<"raw", "height">>
            /\ (~rawBad /\ ~heightBad) =>
                  /\ r.ok
                  /\ r.value = <<[nodes |-> last.nodes, height |-> last.byte]>>
            /\ r.ok <=> r.err = ""
            /\ r.err \in {"", "Raw", "Height"}

\* A pair blob whose right pointer is no legal offset and whose height byte
\* is out of range was decoded: both fields are malformed.
C25_Witness ==
    /\ last.op = "decode_bytes"
    /\ last.type = "Pair"
    /\ PtrBlobOk(last.nodes[1].ptr)
    /\ ~PtrBlobOk(last.nodes[2].ptr)
    /\ last.byte = HeightMax + 1
    /\ last.result.err = "Raw"

\* The poll nodes of a poll: itself and, below a dirty tip, its children's.
RECURSIVE PollNodes(_)
PollNodes(p) ==
    {p} \cup (IF p.state = "Dirty" /\ ~p.leaf
              THEN PollNodes(p.kids[1]) \cup PollNodes(p.kids[2])
              ELSE {})

\* C26: Ok means Done.  For every poll node of the save in progress and
\* every way the store can fail, a save_ref_poll that returns Ok leaves
\* the node Done, so encode_raw_node_blob on it does not panic; a pair's
\* poll that returns Ok leaves both children Done, so the pair's blob,
\* which is encoded only then, is encoded from Done children; and the
\* root blob of a finished save was encoded from a Done poll.
C26_OkMeansDone ==
    /\ poll # None =>
          /\ poll[1].ok =>
                /\ poll[1].p.state = "Done"
                /\ ~encode_raw_node_blob(poll[1].p).panic
          /\ \A q \in PollNodes(poll[1].p) : \A f \in 0 .. MaxFailAt :
                /\ LET r == save_ref_poll(q, Saver(store, f))
                   IN  r.ok => /\ r.poll.state = "Done"
                               /\ ~encode_raw_node_blob(r.poll).panic
                /\ (q.state = "Dirty" /\ ~q.leaf) =>
                      LET t == PairSaveRefPoll(q.kids, Saver(store, f))
                      IN  t.ok =>
                            \A k \in 1 .. 2 :
                                /\ t.kids[k].state = "Done"
                                /\ ~encode_raw_node_blob(t.kids[k]).panic
    /\ \A s \in 1 .. Len(saved) :
          /\ saved[s].p.state = "Done"
          /\ ~encode_raw_node_blob(saved[s].p).panic

\* A poll call on a tree of height 2 with every node dirty returned Ok: the
\* root poll is Done, and the save can encode its root blob.
C26_Witness ==
    /\ poll # None
    /\ last.op = "save_poll"
    /\ last.ok
    /\ poll[1].ok
    /\ last.before.height = 2
    /\ last.before.state = "Dirty"
    /\ last.before.kids[1].state = "Dirty"
    /\ last.before.kids[2].state = "Dirty"
    /\ poll[1].p.state = "Done"
    /\ ~encode_raw_node_blob(poll[1].p).panic

\* Poll node b is poll node a after a call that failed: no node has taken
\* a state other than the one it had or Done, and what was Done is as it
\* was.
RECURSIVE StatesKept(_, _)
StatesKept(a, b) ==
    /\ b.state \in {a.state, "Done"}
    /\ a.state = "Done" => b = a
    /\ (a.state = "Clean" /\ b.state = "Clean") => b = a
    /\ (a.state = "Dirty" /\ b.state = "Dirty") =>
          /\ Len(b.kids) = Len(a.kids)
          /\ a.val = b.val
          /\ \A k \in 1 .. Len(a.kids) : StatesKept(a.kids[k], b.kids[k])

C28_PointersPointBack ==
    \A k \in 1 .. Len(store) :
        /\ store[k].off = BytesBefore(store, k)
        /\ k > 1 => store[k].off > store[k - 1].off
        /\ \A j \in 1 .. Len(store[k].nodes) :
              /\ store[k].nodes[j].ptr < store[k].off
              /\ \E m \in 1 .. k - 1 :
                    /\ store[m].off = store[k].nodes[j].ptr
                    /\ store[m].kind \in {"value", "pair"}

\* A second save has finished, of a tree joined from a tree in memory and
\* a loaded one: its pair blob points at a pair appended by the first save
\* and at one appended by the second.
C28_Witness ==
    /\ last.op = "save"
    /\ Len(saved) = 2
    /\ saved[2].tree.height = 2
    /\ \E k \in saved[2].first .. Len(store) :
          /\ store[k].kind = "pair"
          /\ store[k].nodes[1].ptr # store[k].nodes[2].ptr
          /\ \E j \in 1 .. 2 : store[k].nodes[j].ptr < saved[2].startLen
          /\ \E j \in 1 .. 2 : store[k].nodes[j].ptr >= saved[2].startLen

\* Every tip at or below the node either has its digest memoized or has a
\* dirty pointer; the children of a clean tip are looked up in the store.
RECURSIVE MissingMeansDirty(_, _, _)
MissingMeansDirty(st, raw, height) ==
    height = 0 \/
        /\ raw.digest = None => ~raw.clean
        /\ LET pair == get_pair(st, raw)
           IN  /\ pair # <<>>
               /\ \A k \in 1 .. 2 : MissingMeansDirty(st, pair[k], height - 1)

\* C29: a missing digest means a dirty pointer.  In every tree the caller
\* holds after any sequence of joins, commitments, saves and loads, every
\* tip without a memoized digest has a dirty pair pointer, so to_commitment
\* (pair_commit) and init_save_ref do not reach the panic of
\* calc_pair_commit, neither when they were called nor if they were
\* called now.
C29_MissingMeansDirty ==
    /\ \A h \in Handles :
          /\ MissingMeansDirty(store, h.raw, h.height)
          /\ ~to_commitment(h.raw, h.height).panic
          /\ ~init_save_ref(h.raw, h.height).panic
    /\ last.op \in {"to_commitment", "init_save"} => ~last.panic

\* A commitment was taken of a tree joined in memory, its digest not yet
\* memoized, whose left child is a loaded tip.
C29_Witness ==
    /\ last.op = "to_commitment"
    /\ last.tree.height = 2
    /\ ~last.tree.raw.clean
    /\ last.tree.raw.digest = None
    /\ last.tree.raw.kids[1].clean
    /\ last.tree.raw.kids[1].digest # None
    /\ ~last.panic

\* C30: try_take frees once, with alloc's layout.  On a dirty pointer it
\* gives the value out: the pointers the value held are the caller's, the
\* consumed pointer is gone and is not dropped, and the one block at its
\* address (none for a zero-sized value) is freed with the layout alloc
\* allocated it with, every other block staying; on a clean pointer it
\* gives Err with the offset and the heap stays as it was.
C30_TakeFreesOnce ==
    last.op = "try_take" =>
        LET p == last.ptr
        IN  /\ p \notin owns
            /\ LowBit(p.raw) = 0 =>
                  /\ last.outcome = "ok"
                  /\ last.layout = fix_layout(p.layout)
                  /\ Cardinality(last.freed)
                        = IF p.layout.size > 0 THEN 1 ELSE 0
                  /\ \A b \in last.freed :
                        /\ U64(b.addr) = p.raw
                        /\ b \in last.heapBefore
                        /\ b.layout = last.layout
                        /\ b.kids \subseteq owns
                  /\ heap = last.heapBefore \ last.freed
                  /\ \A b \in heap : U64(b.addr) # p.raw
            /\ LowBit(p.raw) = 1 =>
                  /\ last.outcome = "err"
                  /\ last.freed = {}
                  /\ heap = last.heapBefore
                  /\ \E q \in owns :
                        q.type = "Offset" /\ q.raw = p.raw

\* try_take gave out a value that was allocated with an alignment above 2
\* and held two owned pointers, with another block still allocated.
C30_Witness ==
    /\ last.op = "try_take"
    /\ last.outcome = "ok"
    /\ last.ptr.layout.align = 4
    /\ \E b \in last.freed : Cardinality(b.kids) = 2
    /\ heap # {}

====
